---- MODULE Spec2Model ----
(***************************************************************************)
(* Model of src/app.py: the resume analysis pipeline of main (extract the  *)
(* PDF text, build the prompt, request a completion, parse the reply and   *)
(* display it) and its pure helpers extract_pdf_text, create_prompt and    *)
(* parse_gemini_response.                                                  *)
(*                                                                         *)
(* Text is a sequence of one-character strings over Alphabet.  "{" "}"     *)
(* ":" "," and " " are themselves; "k" and "e" each stand for one complete *)
(* JSON string literal ("JD Match" and "error"); "9" stands for one        *)
(* integer literal of more than 4300 digits, which int() refuses with a    *)
(* ValueError; "a" stands for any character that cannot start a JSON token *)
(* (a letter of prose).  Page text also uses "b", a second letter of prose.*)
(*                                                                         *)
(* An Optional[str] is a sequence of length at most one: None is <<>>,     *)
(* the string s is <<s>>.  A Python dict is a function from key names to   *)
(* values; a value is <<"s", text>> (a string) or <<"o", dict>> (a nested  *)
(* mapping).                                                               *)
(***************************************************************************)
EXTENDS Integers, Sequences, FiniteSets, TLC

VARIABLES
    config,            \* module-level configuration: "unset", "ok", "missing", "error"
    pc,                \* position of the script run inside main
    uploaded_file,     \* Optional PDF held by the st.file_uploader widget
    job_description,   \* text of the st.text_area widget
    preview,           \* what the preview checkbox rendered in this script run
    resume_text,       \* main's local resume_text (Optional[str])
    prompt,            \* main's local prompt (Optional[str])
    response,          \* main's local response (Optional[str])
    parsed,            \* what parse_gemini_response did: its path and its return value
    shown,             \* what display_results was handed and the branch it took
    outcome,           \* the message main ended this analysis with
    calls,             \* get_gemini_response calls issued since startup
    runs,              \* analyses started since startup
    stage_calls        \* per analysis: how often each stage function was called

vars == <<config, pc, uploaded_file, job_description, preview, resume_text, prompt,
          response, parsed, shown, outcome, calls, runs, stage_calls>>

(***************************************************************************)
(* Bounds.                                                                 *)
(***************************************************************************)
MaxLen == 5          \* longest raw text handed to the parser on its own
RespLen == 2         \* longest backend reply enumerated exhaustively in the pipeline
MaxPages == 3        \* most pages of a PDF
MaxRuns == 2         \* most analyses in one session

Alphabet == {"{", "}", " ", "a", "k", "e", ":", ",", "9"}
StringAtoms == {"k", "e"}
HugeIntAtoms == {"9"}

Strings(n) == UNION {[1..m -> Alphabet] : m \in 0..n}

None == <<>>
Some(x) == <<x>>

(***************************************************************************)
(* Python string primitives used by the code.                              *)
(***************************************************************************)
RECURSIVE LStrip(_)
LStrip(s) == IF s # <<>> /\ Head(s) = " " THEN LStrip(Tail(s)) ELSE s

RECURSIVE RStrip(_)
RStrip(s) == IF s # <<>> /\ s[Len(s)] = " " THEN RStrip(SubSeq(s, 1, Len(s) - 1)) ELSE s

\* str.strip()
Strip(s) == RStrip(LStrip(s))

\* str.find(c): 0-based index of the first c, or -1
Find(s, c) ==
    LET hits == {i \in 1..Len(s) : s[i] = c}
    IN  IF hits = {} THEN -1 ELSE (CHOOSE i \in hits : \A j \in hits : i <= j) - 1

\* str.rfind(c): 0-based index of the last c, or -1
RFind(s, c) ==
    LET hits == {i \in 1..Len(s) : s[i] = c}
    IN  IF hits = {} THEN -1 ELSE (CHOOSE i \in hits : \A j \in hits : i >= j) - 1

\* s[start:end] for 0 <= start
Slice(s, start, end) == SubSeq(s, start + 1, end)

(***************************************************************************)
(* json.loads on a str: the scanner of the standard library's decoder,     *)
(* for objects, string literals, integer literals and whitespace.  A scan  *)
(* ends ok, or with err "decode" (json.JSONDecodeError), or with err       *)
(* "value" (the ValueError of int() on a literal past the digit limit,     *)
(* which is not a JSONDecodeError).  The first error met, left to right,   *)
(* is the one raised.                                                      *)
(***************************************************************************)
KeyName(c) == IF c = "e" THEN "error" ELSE "JD Match"

EmptyDict == [x \in {} |-> <<>>]

ScanFail == [ok |-> FALSE, err |-> "decode", val |-> <<>>, end |-> 0]
ScanValueError == [ok |-> FALSE, err |-> "value", val |-> <<>>, end |-> 0]
ScanOk(v, e) == [ok |-> TRUE, err |-> "none", val |-> v, end |-> e]

RECURSIVE SkipWs(_, _)
SkipWs(s, i) == IF i <= Len(s) /\ s[i] = " " THEN SkipWs(s, i + 1) ELSE i

RECURSIVE ScanOnce(_, _)
RECURSIVE ScanObject(_, _)
RECURSIVE ScanMembers(_, _, _)

\* scan_once at position i (1-based), whitespace already skipped
ScanOnce(s, i) ==
    IF i > Len(s) THEN ScanFail
    ELSE IF s[i] = "{" THEN ScanObject(s, i + 1)
    ELSE IF s[i] \in StringAtoms THEN ScanOk(<<"s", <<s[i]>>>>, i + 1)
    ELSE IF s[i] \in HugeIntAtoms THEN ScanValueError
    ELSE ScanFail

\* JSONObject: i is the position after the opening brace
ScanObject(s, i) ==
    LET j == SkipWs(s, i)
    IN  IF j <= Len(s) /\ s[j] = "}" THEN ScanOk(<<"o", EmptyDict>>, j + 1)
        ELSE ScanMembers(s, j, EmptyDict)

\* the member loop of JSONObject: j is where a key must start, d the pairs so far
ScanMembers(s, j, d) ==
    IF j > Len(s) \/ s[j] \notin StringAtoms THEN ScanFail
    ELSE LET c == SkipWs(s, j + 1)
         IN  IF c > Len(s) \/ s[c] # ":" THEN ScanFail
             ELSE LET v == ScanOnce(s, SkipWs(s, c + 1))
                  IN  IF ~v.ok THEN v
                      ELSE LET e == SkipWs(s, v.end)
                               d2 == (KeyName(s[j]) :> v.val) @@ d
                           IN  IF e > Len(s) THEN ScanFail
                               ELSE IF s[e] = "}" THEN ScanOk(<<"o", d2>>, e + 1)
                               ELSE IF s[e] = "," THEN ScanMembers(s, SkipWs(s, e + 1), d2)
                               ELSE ScanFail

\* JSONDecoder.decode of a text that starts with "{": one value, then only whitespace
JsonLoads(s) ==
    LET v == ScanOnce(s, SkipWs(s, 1))
    IN  IF ~v.ok THEN [ok |-> FALSE, err |-> v.err, val |-> EmptyDict]
        ELSE IF SkipWs(s, v.end) > Len(s)
        THEN [ok |-> TRUE, err |-> "none", val |-> v.val[2]]
        ELSE [ok |-> FALSE, err |-> "decode", val |-> EmptyDict]

(***************************************************************************)
(* extract_pdf_text.  A PDF is [readable, pages]: PdfReader raises on an   *)
(* unreadable file; each page either yields a text (Some(text)) or its     *)
(* extract_text raises (PageRaises).                                       *)
(***************************************************************************)
PageRaises == <<>>
PageTexts == {<<>>, <<" ">>, <<"a">>, <<"b">>, <<"a", " ">>}
PageOutcomes == {Some(t) : t \in PageTexts} \cup {PageRaises}

Unreadable == [readable |-> FALSE, pages |-> <<>>]
AllPDFs ==
    {[readable |-> TRUE, pages |-> p] :
        p \in UNION {[1..n -> PageOutcomes] : n \in 0..MaxPages}} \cup {Unreadable}

\* the loop ending at the first page that yields no text
RECURSIVE ExtractLoopStopsAtEmptyPage(_, _, _)
ExtractLoopStopsAtEmptyPage(pages, page, text) ==
    IF page >= Len(pages) THEN [raised |-> FALSE, text |-> text]
    ELSE IF pages[page + 1] = PageRaises THEN [raised |-> TRUE, text |-> text]
    ELSE IF pages[page + 1][1] = <<>> THEN [raised |-> FALSE, text |-> text]
    ELSE ExtractLoopStopsAtEmptyPage(pages, page + 1, text \o pages[page + 1][1])

\* the loop adding a separator after each page
RECURSIVE ExtractLoopSeparated(_, _, _)
ExtractLoopSeparated(pages, page, text) ==
    IF page >= Len(pages) THEN [raised |-> FALSE, text |-> text]
    ELSE IF pages[page + 1] = PageRaises THEN [raised |-> TRUE, text |-> text]
    ELSE ExtractLoopSeparated(pages, page + 1, text \o pages[page + 1][1] \o <<" ">>)

\* the for loop over range(len(reader.pages)): page is the 0-based loop index
RECURSIVE ExtractLoop(_, _, _)
ExtractLoop(pages, page, text) ==
    IF page >= Len(pages) THEN [raised |-> FALSE, text |-> text]
    ELSE IF pages[page + 1] = PageRaises THEN [raised |-> TRUE, text |-> text]
    ELSE ExtractLoop(pages, page + 1, text \o pages[page + 1][1])

ExtractPdfText(file) ==
    IF ~file.readable THEN None
    ELSE LET r == ExtractLoop(file.pages, 0, <<>>)
         IN  IF r.raised THEN None
             ELSE IF Strip(r.text) = <<>> THEN None
             ELSE Some(r.text)

(***************************************************************************)
(* create_prompt: the template with the two substitution points filled;    *)
(* "T1", "T2", "T3" are the template's three fixed segments.               *)
(***************************************************************************)
CreatePrompt(resume, jd) == <<"T1">> \o resume \o <<"T2">> \o jd \o <<"T3">>

(***************************************************************************)
(* parse_gemini_response                                                   *)
(***************************************************************************)
ErrorResult(msg, text) ==
    ("error" :> <<"s", <<msg>>>>) @@ ("raw_response" :> <<"s", text>>)

\* response = response.strip()
CleanResponse(raw) == Strip(raw)

\* start_idx taken from the last opening brace
StartIdxLastOpen(stripped) == RFind(stripped, "{")

\* start_idx = response.find('{')
StartIdx(stripped) == Find(stripped, "{")

\* end_idx without the + 1
EndIdxNoPlusOne(stripped) == RFind(stripped, "}")

\* end_idx = response.rfind('}') + 1
EndIdx(stripped) == RFind(stripped, "}") + 1

\* the else branch: no JSON found
InvalidFormat(stripped) ==
    [path |-> "format", result |-> ErrorResult("Invalid response format", stripped)]

\* an exception no except clause of the function catches: it leaves the function
Uncaught == [path |-> "raised", result |-> EmptyDict]

\* the except clause returning the message without the raw response
OnJsonDecodeErrorNoRaw(stripped) ==
    [path |-> "parse", result |-> ("error" :> <<"s", <<"Failed to parse response">>>>)]

\* the except json.JSONDecodeError clause
OnJsonDecodeError(stripped) ==
    [path |-> "parse", result |-> ErrorResult("Failed to parse response", stripped)]

ParseGeminiResponse(raw) ==
    LET stripped == CleanResponse(raw)
        start_idx == StartIdx(stripped)
        end_idx == EndIdx(stripped)
    IN  IF start_idx >= 0 /\ end_idx > start_idx
        THEN LET json_str == Slice(stripped, start_idx, end_idx)
                 result == JsonLoads(json_str)
             IN  IF result.ok
                 THEN [path |-> "ok", result |-> result.val]
                 ELSE IF result.err = "decode"
                 THEN OnJsonDecodeError(stripped)
                 ELSE Uncaught
        ELSE InvalidFormat(stripped)

NotParsed == [path |-> "none", result |-> EmptyDict]

(***************************************************************************)
(* display_results: the branch it takes and what it writes as raw response *)
(***************************************************************************)
DisplayResults(analysis_results) ==
    IF "error" \in DOMAIN analysis_results
    THEN [branch |-> "error",
          arg |-> analysis_results,
          raw |-> IF "raw_response" \in DOMAIN analysis_results
                  THEN analysis_results["raw_response"]
                  ELSE <<"s", <<"No response available">>>>]
    ELSE [branch |-> "tabs", arg |-> analysis_results, raw |-> <<"s", <<>>>>]

NotShown == [branch |-> "none", arg |-> EmptyDict, raw |-> <<"s", <<>>>>]

NoStageCalls == [extract |-> 0, prompt |-> 0, complete |-> 0, parse |-> 0, display |-> 0]

(***************************************************************************)
(* The session.  Streamlit runs the script once per interaction; the       *)
(* analysis branch of main is split at its calls, in program order.        *)
(***************************************************************************)
SamplePDFs ==
    { Unreadable,
      [readable |-> TRUE, pages |-> <<Some(<<" ">>)>>],
      [readable |-> TRUE, pages |-> <<Some(<<"a">>)>>],
      [readable |-> TRUE, pages |-> <<Some(<<>>), Some(<<"b">>)>>] }

JobDescriptions == {<<>>, <<"a">>}

SampleReplies ==
    { <<"{", "k", ":", "k", "}">>,
      <<"a", "{", "k", ":", "k", "}", "a">>,
      <<"{", "e", ":", "k", "}">>,
      <<"{", "k", ":", "{", "}", ",", "e", ":", "k", "}">>,
      <<" ", "{", "k", ":", "a", "}">>,
      <<"{", "k", ":", "9", "}">> }

\* what get_gemini_response can return: None, or the text of the reply
BackendReplies == {None} \cup {Some(s) : s \in Strings(RespLen) \cup SampleReplies}

\* Python truthiness of an Optional[str]: None and "" are falsy
Falsy(opt) == opt = None \/ opt[1] = <<>>

Init ==
    /\ config = "unset"
    /\ pc = "startup"
    /\ uploaded_file = None
    /\ job_description = <<>>
    /\ preview = "none"
    /\ resume_text = None
    /\ prompt = None
    /\ response = None
    /\ parsed = NotParsed
    /\ shown = NotShown
    /\ outcome = "none"
    /\ calls = 0
    /\ runs = 0
    /\ stage_calls = NoStageCalls

\* module level: load_dotenv, os.getenv, genai.configure
Startup ==
    /\ pc = "startup"
    /\ config' \in {"ok", "missing", "error"}
    /\ pc' = "idle"
    /\ UNCHANGED <<uploaded_file, job_description, preview, resume_text, prompt,
                   response, parsed, shown, outcome, calls, runs, stage_calls>>

Upload ==
    /\ pc = "idle"
    /\ \E f \in SamplePDFs : uploaded_file' = Some(f)
    /\ preview' = "none"
    /\ UNCHANGED <<config, pc, job_description, resume_text, prompt, response,
                   parsed, shown, outcome, calls, runs, stage_calls>>

EnterJobDescription ==
    /\ pc = "idle"
    /\ job_description' \in JobDescriptions
    /\ UNCHANGED <<config, pc, uploaded_file, preview, resume_text, prompt, response,
                   parsed, shown, outcome, calls, runs, stage_calls>>

\* the preview checkbox
Preview ==
    /\ pc = "idle"
    /\ uploaded_file # None
    /\ preview' = IF Falsy(ExtractPdfText(uploaded_file[1])) THEN "warning" ELSE "text"
    /\ UNCHANGED <<config, pc, uploaded_file, job_description, resume_text, prompt,
                   response, parsed, shown, outcome, calls, runs, stage_calls>>

\* the analyze button and the two input checks
ClickAnalyze ==
    /\ pc = "idle"
    /\ runs < MaxRuns
    /\ runs' = runs + 1
    /\ IF uploaded_file = None
       THEN outcome' = "warn_no_file" /\ pc' = "done"
       ELSE IF job_description = <<>>
       THEN outcome' = "warn_no_jd" /\ pc' = "done"
       ELSE outcome' = "none" /\ pc' = "extract"
    /\ UNCHANGED <<config, uploaded_file, job_description, preview, resume_text,
                   prompt, response, parsed, shown, calls, stage_calls>>

\* Extract without the return after the error message
ExtractNoReturn ==
    /\ pc = "extract"
    /\ resume_text' = ExtractPdfText(uploaded_file[1])
    /\ stage_calls' = [stage_calls EXCEPT !.extract = @ + 1]
    /\ outcome' = IF Falsy(resume_text') THEN "extraction_failed" ELSE outcome
    /\ pc' = "prompt"
    /\ UNCHANGED <<config, uploaded_file, job_description, preview, prompt, response,
                   parsed, shown, calls, runs>>

Extract ==
    /\ pc = "extract"
    /\ resume_text' = ExtractPdfText(uploaded_file[1])
    /\ stage_calls' = [stage_calls EXCEPT !.extract = @ + 1]
    /\ IF Falsy(resume_text')
       THEN outcome' = "extraction_failed" /\ pc' = "done"
       ELSE outcome' = outcome /\ pc' = "prompt"
    /\ UNCHANGED <<config, uploaded_file, job_description, preview, prompt, response,
                   parsed, shown, calls, runs>>

BuildPrompt ==
    /\ pc = "prompt"
    /\ prompt' = Some(CreatePrompt(resume_text[1], job_description))
    /\ stage_calls' = [stage_calls EXCEPT !.prompt = @ + 1]
    /\ pc' = "complete"
    /\ UNCHANGED <<config, uploaded_file, job_description, preview, resume_text,
                   response, parsed, shown, outcome, calls, runs>>

\* Complete asking the backend a second time when the first request failed
CompleteWithRetry ==
    /\ pc = "complete"
    /\ response' \in BackendReplies
    /\ calls' = IF response' = None THEN calls + 2 ELSE calls + 1
    /\ stage_calls' = [stage_calls EXCEPT !.complete = @ + 1]
    /\ IF Falsy(response')
       THEN outcome' = "completion_failed" /\ pc' = "done"
       ELSE outcome' = outcome /\ pc' = "parse"
    /\ UNCHANGED <<config, uploaded_file, job_description, preview, resume_text,
                   prompt, parsed, shown, runs>>

\* Complete without the return after the error message
CompleteNoReturn ==
    /\ pc = "complete"
    /\ response' \in BackendReplies
    /\ calls' = calls + 1
    /\ stage_calls' = [stage_calls EXCEPT !.complete = @ + 1]
    /\ outcome' = IF Falsy(response') THEN "completion_failed" ELSE outcome
    /\ pc' = "parse"
    /\ UNCHANGED <<config, uploaded_file, job_description, preview, resume_text,
                   prompt, parsed, shown, runs>>

Complete ==
    /\ pc = "complete"
    /\ response' \in BackendReplies
    /\ calls' = calls + 1
    /\ stage_calls' = [stage_calls EXCEPT !.complete = @ + 1]
    /\ IF Falsy(response')
       THEN outcome' = "completion_failed" /\ pc' = "done"
       ELSE outcome' = outcome /\ pc' = "parse"
    /\ UNCHANGED <<config, uploaded_file, job_description, preview, resume_text,
                   prompt, parsed, shown, runs>>

(***************************************************************************)
(* Parsing and display; then the parser on its own, where every raw text  *)
(* up to MaxLen is parsed and shown.                                       *)
(***************************************************************************)
\* analysis_results = parse_gemini_response(response); an exception that leaves
\* the parser leaves main too and ends the script run
Parse ==
    /\ pc = "parse"
    /\ parsed' = ParseGeminiResponse(response[1])
    /\ stage_calls' = [stage_calls EXCEPT !.parse = @ + 1]
    /\ IF parsed'.path = "raised"
       THEN outcome' = "exception" /\ pc' = "done"
       ELSE outcome' = outcome /\ pc' = "display"
    /\ UNCHANGED <<config, uploaded_file, job_description, preview, resume_text,
                   prompt, response, shown, calls, runs>>

Display ==
    /\ pc = "display"
    /\ shown' = DisplayResults(parsed.result)
    /\ stage_calls' = [stage_calls EXCEPT !.display = @ + 1]
    /\ outcome' = "displayed"
    /\ pc' = "done"
    /\ UNCHANGED <<config, uploaded_file, job_description, preview, resume_text,
                   prompt, response, parsed, calls, runs>>

InitParse ==
    /\ config = "ok"
    /\ pc = "parse"
    /\ uploaded_file = None
    /\ job_description = <<>>
    /\ preview = "none"
    /\ resume_text = None
    /\ prompt = None
    /\ response \in {Some(s) : s \in Strings(MaxLen)}
    /\ parsed = NotParsed
    /\ shown = NotShown
    /\ outcome = "none"
    /\ calls = 0
    /\ runs = 0
    /\ stage_calls = NoStageCalls

NextParse == Parse \/ Display

SpecParse == InitParse /\ [][NextParse]_vars

\* the script run ends; the widgets keep the file and the job description
Rerun ==
    /\ pc = "done"
    /\ pc' = "idle"
    /\ preview' = "none"
    /\ resume_text' = None
    /\ prompt' = None
    /\ response' = None
    /\ parsed' = NotParsed
    /\ shown' = NotShown
    /\ outcome' = "none"
    /\ stage_calls' = NoStageCalls
    /\ UNCHANGED <<config, uploaded_file, job_description, calls, runs>>

Next ==
    \/ Startup
    \/ Upload
    \/ EnterJobDescription
    \/ Preview
    \/ ClickAnalyze
    \/ Extract
    \/ BuildPrompt
    \/ Complete
    \/ Parse
    \/ Display
    \/ Rerun

Spec == Init /\ [][Next]_vars

(***************************************************************************)
(* The extractor on its own: every PDF up to MaxPages pages is extracted.  *)
(***************************************************************************)
InitExtract ==
    /\ config = "ok"
    /\ pc = "extract"
    /\ uploaded_file \in {Some(f) : f \in AllPDFs}
    /\ job_description = <<"a">>
    /\ preview = "none"
    /\ resume_text = None
    /\ prompt = None
    /\ response = None
    /\ parsed = NotParsed
    /\ shown = NotShown
    /\ outcome = "none"
    /\ calls = 0
    /\ runs = 1
    /\ stage_calls = NoStageCalls

NextExtract == Extract

SpecExtract == InitExtract /\ [][NextExtract]_vars

(***************************************************************************)
(* Properties of the pipeline (Spec).                                      *)
(***************************************************************************)
HasChar(s, c) == \E i \in 1..Len(s) : s[i] = c

\* the keys of the JSON format the prompt asks for
RequiredKeys ==
    {"JD Match", "MissingKeywords", "Profile Summary", "Improvement Suggestions",
     "Resume Strengths", "Key Role Requirements"}

SchemaConformant(d) ==
    /\ RequiredKeys \subseteq DOMAIN d
    /\ d["JD Match"][1] = "s"
    /\ d["MissingKeywords"][1] = "o"
    /\ d["Profile Summary"][1] = "s"
    /\ d["Key Role Requirements"][1] = "s"

IsErrorResult(d) == {"error", "raw_response"} \subseteq DOMAIN d

\* C1: in an analysis whose text extraction yields no text, main ends with the
\* extraction failure message, and in that analysis no prompt is built, no
\* completion is requested and nothing is parsed or displayed.
C1_ExtractionFailureCallsNothing ==
    (stage_calls.extract > 0 /\ Falsy(resume_text)) =>
        /\ outcome = "extraction_failed"
        /\ pc = "done"
        /\ stage_calls.prompt = 0
        /\ stage_calls.complete = 0
        /\ stage_calls.parse = 0
        /\ stage_calls.display = 0
        /\ prompt = None
        /\ response = None
        /\ parsed = NotParsed

C1_Witness ==
    /\ pc = "done"
    /\ outcome = "extraction_failed"
    /\ stage_calls.extract = 1
    /\ uploaded_file = Some(Unreadable)
    /\ runs = 2
    /\ calls = 1

\* C2: in an analysis whose completion request fails, main ends with the
\* completion failure message and neither the parser nor display_results is
\* called; after either stage failure the analysis is over and no later stage
\* has run.
C2_CompletionFailureIsTerminal ==
    /\ (stage_calls.complete > 0 /\ Falsy(response)) =>
           /\ outcome = "completion_failed"
           /\ pc = "done"
           /\ stage_calls.parse = 0
           /\ stage_calls.display = 0
           /\ parsed = NotParsed
           /\ shown = NotShown
    /\ outcome = "extraction_failed" =>
           pc = "done" /\ stage_calls.prompt + stage_calls.complete
                          + stage_calls.parse + stage_calls.display = 0
    /\ outcome = "completion_failed" =>
           pc = "done" /\ stage_calls.parse + stage_calls.display = 0

C2_Witness ==
    /\ pc = "done"
    /\ outcome = "completion_failed"
    /\ response = None
    /\ stage_calls.complete = 1
    /\ prompt # None

\* C3: for every raw text the backend returns without failing, the analysis
\* ends with display_results handed exactly what parse_gemini_response returns
\* for that text, never with a failure.  Stated for the non-empty texts: main
\* takes an empty reply for a failed request.
C3_EveryReplyIsParsed ==
    (pc = "done" /\ stage_calls.complete > 0 /\ response # None /\ response[1] # <<>>) =>
        /\ outcome = "displayed"
        /\ parsed.path \in {"ok", "format", "parse"}
        /\ shown.arg = parsed.result

\* C4 as claimed: once startup found no API key, no analysis is ever attempted:
\* no extraction, no prompt construction and no completion call.
C4_NoAnalysisWithoutKey ==
    config = "missing" =>
        /\ stage_calls.extract = 0
        /\ stage_calls.prompt = 0
        /\ stage_calls.complete = 0
        /\ calls = 0

\* C5 as claimed: every value handed to display_results is a fully
\* schema-conformant result or an error result with its raw response.
C5_HandedValueConformantOrError ==
    stage_calls.display > 0 =>
        \/ parsed.path \in {"format", "parse"} /\ IsErrorResult(shown.arg)
        \/ SchemaConformant(shown.arg)

\* C5 amended: every value handed to display_results is either an error result
\* made of the keys error and raw_response (the parser's format or parse path),
\* or the mapping decoded from a brace-delimited slice of the trimmed reply,
\* handed on as decoded whatever keys it has.
C5_HandedValueDecodedOrError ==
    stage_calls.display > 0 =>
        LET t == Strip(response[1])
        IN  \/ /\ parsed.path \in {"format", "parse"}
               /\ DOMAIN shown.arg = {"error", "raw_response"}
               /\ shown.arg["raw_response"] = <<"s", t>>
            \/ /\ parsed.path = "ok"
               /\ \E i \in 1..Len(t) : \E j \in i..Len(t) :
                      /\ t[i] = "{"
                      /\ t[j] = "}"
                      /\ JsonLoads(SubSeq(t, i, j)).ok
                      /\ shown.arg = JsonLoads(SubSeq(t, i, j)).val

C5_Witness ==
    /\ stage_calls.display > 0
    /\ parsed.path = "ok"
    /\ "JD Match" \in DOMAIN shown.arg
    /\ ~SchemaConformant(shown.arg)

(***************************************************************************)
(* Properties of parse_gemini_response (SpecParse).  The text is described *)
(* here by positions, not by the parser's own steps.                       *)
(***************************************************************************)
\* the text without its leading and trailing whitespace
Trimmed(s) ==
    IF \A i \in 1..Len(s) : s[i] = " " THEN <<>>
    ELSE LET i == CHOOSE x \in 1..Len(s) : s[x] # " " /\ \A y \in 1..(x - 1) : s[y] = " "
             j == CHOOSE x \in 1..Len(s) : s[x] # " " /\ \A y \in (x + 1)..Len(s) : s[y] = " "
         IN  SubSeq(s, i, j)

\* 1-based positions of the first "{" and of the last "}"
FirstOpen(t) == CHOOSE i \in 1..Len(t) : t[i] = "{" /\ \A y \in 1..(i - 1) : t[y] # "{"
LastClose(t) == CHOOSE j \in 1..Len(t) : t[j] = "}" /\ \A y \in (j + 1)..Len(t) : t[y] # "}"

\* some "}" comes after the first "{"
HasBracePair(t) == \E i \in 1..Len(t) : \E j \in (i + 1)..Len(t) : t[i] = "{" /\ t[j] = "}"

OuterSlice(t) == SubSeq(t, FirstOpen(t), LastClose(t))

\* braces that do not nest: a prefix closes more than it opened, or one stays open
BraceDepth(s, n) ==
    Cardinality({i \in 1..n : s[i] = "{"}) - Cardinality({i \in 1..n : s[i] = "}"})
Unbalanced(s) == BraceDepth(s, Len(s)) # 0 \/ \E n \in 1..Len(s) : BraceDepth(s, n) < 0

\* p is one complete JSON object, from its "{" to its "}"
WellFormedPayload(p) == p # <<>> /\ p[1] = "{" /\ p[Len(p)] = "}" /\ JsonLoads(p).ok

ParserReturned == stage_calls.parse > 0

\* C6: the parser returns the format error result exactly when the trimmed text
\* has no "{" or no "}" after its first "{"; in every other case it decodes the
\* slice from the first "{" through the last "}" inclusive.
C6_FormatErrorIffNoBracePair ==
    ParserReturned =>
        LET t == Trimmed(response[1])
        IN  /\ parsed.path = "format" <=>
                   (~HasChar(t, "{") \/ ~\E j \in (FirstOpen(t) + 1)..Len(t) : t[j] = "}")
            /\ parsed.path = "format" <=> ~HasBracePair(t)
            /\ parsed.path = "format" =>
                   parsed.result["error"] = <<"s", <<"Invalid response format">>>>
            /\ parsed.path # "format" =>
                   LET decoded == JsonLoads(OuterSlice(t))
                   IN  IF decoded.ok
                       THEN parsed = [path |-> "ok", result |-> decoded.val]
                       ELSE parsed.path = IF decoded.err = "decode" THEN "parse" ELSE "raised"

C6_Witness ==
    /\ ParserReturned
    /\ parsed.path = "format"
    /\ HasChar(response[1], "{")
    /\ HasChar(response[1], "}")

\* C7 as claimed: the raw_response of an error result is the raw text handed to
\* the parser, character for character, leading and trailing whitespace included.
C7_RawResponseVerbatim ==
    (ParserReturned /\ parsed.path \in {"format", "parse"}) =>
        parsed.result["raw_response"] = <<"s", response[1]>>

\* C8 as claimed: for a text with a "}" after its first "{" whose outermost
\* slice is unbalanced or is not valid JSON, the parser returns the parse error
\* result; for every text it returns a value and no fault escapes it.
C8_InvalidSliceGivesParseError ==
    ParserReturned =>
        LET t == Trimmed(response[1])
        IN  /\ parsed.path \in {"ok", "format", "parse"}
            /\ (HasBracePair(t) /\ (Unbalanced(OuterSlice(t)) \/ ~JsonLoads(OuterSlice(t)).ok)) =>
                   /\ parsed.path = "parse"
                   /\ IsErrorResult(parsed.result)
                   /\ parsed.result["error"] = <<"s", <<"Failed to parse response">>>>

\* the well-formed payloads of raw, as <<first, last>> positions
PayloadSpans(raw) ==
    {sp \in (1..Len(raw)) \X (1..Len(raw)) :
        sp[1] < sp[2] /\ WellFormedPayload(SubSeq(raw, sp[1], sp[2]))}

\* C9 as claimed: for a text made of exactly one well-formed payload (every
\* well-formed payload of the text lies inside it) with prose before and after
\* it, the parser returns that payload's decoded mapping, whatever the prose.
C9_PayloadRecoveredForAnyProse ==
    ParserReturned =>
        LET raw == response[1]
            spans == PayloadSpans(raw)
        IN  \A sp \in spans :
                (/\ 1 < sp[1]
                 /\ sp[2] < Len(raw)
                 /\ \A other \in spans : sp[1] <= other[1] /\ other[2] <= sp[2]) =>
                    parsed = [path |-> "ok",
                              result |-> JsonLoads(SubSeq(raw, sp[1], sp[2])).val]

\* C9 amended: for a text made of one well-formed payload with prose around it,
\* where the prose before it has no "{" and the prose after it has no "}", the
\* parser returns exactly that payload's decoded mapping.
C9_PayloadRecoveredForBraceFreeProse ==
    ParserReturned =>
        LET raw == response[1]
        IN  \A sp \in PayloadSpans(raw) :
                (/\ \A i \in 1..(sp[1] - 1) : raw[i] # "{"
                 /\ \A i \in (sp[2] + 1)..Len(raw) : raw[i] # "}") =>
                    parsed = [path |-> "ok",
                              result |-> JsonLoads(SubSeq(raw, sp[1], sp[2])).val]

C9_Witness ==
    /\ ParserReturned
    /\ parsed.path = "ok"
    /\ Len(response[1]) >= 4
    /\ response[1][1] = "a"
    /\ response[1][Len(response[1])] = "a"
    /\ \E sp \in PayloadSpans(response[1]) : sp[1] = 2 /\ sp[2] = Len(response[1]) - 1

(***************************************************************************)
(* Properties of extract_pdf_text (SpecExtract).                           *)
(***************************************************************************)
\* the page texts joined in page order, built from the last page backwards
RECURSIVE ConcatTexts(_)
ConcatTexts(pages) ==
    IF pages = <<>> THEN <<>>
    ELSE ConcatTexts(SubSeq(pages, 1, Len(pages) - 1)) \o pages[Len(pages)][1]

EveryPageHasText(file) ==
    /\ file.readable
    /\ Len(file.pages) >= 1
    /\ \A i \in 1..Len(file.pages) :
           file.pages[i] # PageRaises /\ file.pages[i][1] # <<>>

Extracted == stage_calls.extract > 0

\* C10 as claimed: for a PDF whose pages all yield non-empty text, the
\* extractor returns the page texts concatenated in page order, nothing added.
C10_ConcatenationOfNonEmptyPages ==
    (Extracted /\ EveryPageHasText(uploaded_file[1])) =>
        resume_text = Some(ConcatTexts(uploaded_file[1].pages))

\* C10 amended: for a PDF whose pages all yield non-empty text, at least one
\* character of which is not whitespace, the extractor returns the page texts
\* concatenated in page order, nothing skipped, repeated or added.
C10_ConcatenationOfNonBlankPages ==
    (/\ Extracted
     /\ EveryPageHasText(uploaded_file[1])
     /\ \E i \in 1..Len(uploaded_file[1].pages) :
            \E c \in 1..Len(uploaded_file[1].pages[i][1]) :
                uploaded_file[1].pages[i][1][c] # " ") =>
        /\ resume_text = Some(ConcatTexts(uploaded_file[1].pages))
        /\ pc = "prompt"

C10_Witness ==
    /\ Extracted
    /\ uploaded_file[1].pages = <<Some(<<"a", " ">>), Some(<<" ">>), Some(<<"b">>)>>
    /\ resume_text = Some(<<"a", " ", " ", "b">>)

\* opening the file raises, or extract_text raises on one of its pages
ReadingRaises(file) ==
    ~file.readable \/ \E i \in 1..Len(file.pages) : file.pages[i] = PageRaises

\* no page yields a character other than whitespace
NoVisibleText(file) ==
    \A i \in 1..Len(file.pages) :
        file.pages[i] # PageRaises =>
            \A c \in 1..Len(file.pages[i][1]) : file.pages[i][1][c] = " "

\* C11: extract_pdf_text returns None, and main shows its extraction failure
\* message (no exception leaves the function), exactly when opening or reading
\* the document raises or the text of all pages together is empty or only
\* whitespace.  A page without text adds the empty string and the pages after
\* it are still read: when nothing raises, a PDF whose pages all yield no text
\* fails, and a PDF with a page of visible text yields all page texts joined.
C11_FailureIffUnreadableOrBlank ==
    Extracted =>
        LET file == uploaded_file[1]
        IN  /\ resume_text = None <=> (ReadingRaises(file) \/ NoVisibleText(file))
            /\ resume_text = None <=> (pc = "done" /\ outcome = "extraction_failed")
            /\ resume_text # None =>
                   /\ resume_text = Some(ConcatTexts(file.pages))
                   /\ pc = "prompt"
            /\ (file.readable /\ \A i \in 1..Len(file.pages) : file.pages[i] = Some(<<>>)) =>
                   resume_text = None
            /\ (~ReadingRaises(file) /\ ~NoVisibleText(file)) => resume_text # None

C11_Witness ==
    /\ Extracted
    /\ uploaded_file[1].pages = <<Some(<<"a">>), Some(<<>>), Some(<<"b">>)>>
    /\ resume_text = Some(<<"a", "b">>)
    /\ pc = "prompt"

(***************************************************************************)
(* Properties of the session's backend calls and of the display (Spec).    *)
(***************************************************************************)
\* C12: an analysis issues at most one backend call; every step that takes an
\* analysis out of its completion stage adds exactly one call, whether the
\* request failed or not and whatever was asked before, and no other step
\* adds or removes one: after k analyses that reached the completion stage
\* the call count is k.
C12_OneCallPerAnalysis ==
    /\ [](stage_calls.complete <= 1 /\ calls <= runs)
    /\ [][calls' = calls + (IF pc = "complete" /\ pc' # "complete" THEN 1 ELSE 0)]_vars
    /\ [][(pc = "complete" /\ pc' # "complete") =>
              (stage_calls.complete = 0 /\ stage_calls'.complete = 1)]_vars

C12_Witness ==
    /\ pc = "done"
    /\ runs = 2
    /\ calls = 2
    /\ stage_calls.complete = 1
    /\ response = None
    /\ uploaded_file = Some([readable |-> TRUE, pages |-> <<Some(<<"a">>)>>])
    /\ prompt = Some(CreatePrompt(<<"a">>, <<"a">>))

\* C13: once main has displayed the parser's result, display_results took its
\* error branch exactly when parse_gemini_response took its format or parse
\* error path; a mapping the parser decoded is shown in the tabs whatever keys
\* it has.
C13_ErrorBranchIffParserError ==
    outcome = "displayed" =>
        /\ shown.branch = "error" <=> parsed.path \in {"format", "parse"}
        /\ parsed.path = "ok" => shown.branch = "tabs"

====
